---- MODULE Spec2Model ----
(***************************************************************************)
(* A model of src/src/lru.rs: the raw-pointer doubly-linked LinkedList and *)
(* the LRUCache built on it (a HashMap from key to node pointer).          *)
(*                                                                         *)
(* The heap is explicit.  A node pointer is an address; Box::new picks any *)
(* address that is not currently allocated (an allocator is free to hand   *)
(* out a chunk that was freed before), and Box::from_raw + drop frees it.  *)
(* The bytes of a freed chunk stay readable through a dangling pointer:    *)
(* they are either the stale entry or clobbered by the allocator.          *)
(* A usize is kept as an integer whose negative values -n stand for the    *)
(* wrapped value 2^64 - n.                                                 *)
(***************************************************************************)
EXTENDS Integers, Sequences, FiniteSets, TLC

\* ---- bounds of the model -------------------------------------------------
MaxKey == 3
MaxVal == 2
MaxCap == 2
MaxAddr == 3
MaxWrap == 1
MaxCalls == 4
MaxListOps == 5
MaxLen == 4
MaxElem == 3

Keys == 1..MaxKey
Values == 1..MaxVal
Addr == 1..MaxAddr

\* Option<NonNull<Node<T>>>::None is the null pointer.
None == 0

\* Option<T>: None and Some(v).
NoneV == <<>>
Some(v) == <<v>>

\* LRUEntry { key, value }
LRUEntry(k, v) == [key |-> k, value |-> v]

\* The bytes of an entry after the allocator has written over them: equal to
\* no key and no value a caller can pass.
Junk == [key |-> MaxKey + 1, value |-> MaxVal + 1]

\* Node::new(val): next and prev start as None.
Node(val) == [val |-> val, next |-> None, prev |-> None]

VARIABLES
    capacity,   \* LRUCache.capacity
    map,        \* LRUCache.map: key -> node pointer (None: key not in the map)
    mem,        \* the heap: address -> bytes of the Node stored there
    live,       \* addresses currently allocated (a Box not yet freed)
    head,       \* LinkedList.head
    tail,       \* LinkedList.tail
    length,     \* LinkedList.length
    events,     \* faults of the last call: "use_after_free", "double_free", "underflow"
    pc,         \* "run", "dropping", "dropped", "aborted"
    calls,      \* how many insert and get calls were made
    op,         \* the last call and what it returned
    ref,        \* a reference LRU run beside the cache: its pairs, first pair
                \* most recent, and what its last call returned
    recent,     \* the keys accessed so far (insert, or get hit), each once,
                \* last accessed first
    rt          \* the insert(k, v) whose round trip is running: k, v and the
                \* number of get(k) calls made right after it (up to two);
                \* NoneV otherwise

vars == <<capacity, map, mem, live, head, tail, length, events, pc, calls, op,
          ref, recent, rt>>

\* The LinkedList together with the heap its pointers point into.
List == [mem |-> mem, live |-> live, head |-> head, tail |-> tail,
         length |-> length, events |-> {}]

\* A dereference of node: a fault when the node has been freed.
Deref(l, node) ==
    IF node \in l.live THEN l
    ELSE [l EXCEPT !.events = @ \cup {"use_after_free"}]

\* self.length -= 1 on a usize.
DecLength(l) ==
    IF l.length = 0
    THEN [l EXCEPT !.length = @ - 1, !.events = @ \cup {"underflow"}]
    ELSE [l EXCEPT !.length = @ - 1]

\* Box::new(Node::new(val)) placed at address a.
BoxNew(l, a, val) ==
    [l EXCEPT !.live = @ \cup {a}, !.mem[a] = Node(val)]

\* Dropping the Box rebuilt by Box::from_raw(node): the chunk is freed; its
\* entry bytes stay as they are or are clobbered.
BoxFree(l, node, clobber) ==
    LET l1 == IF node \in l.live THEN l
              ELSE [l EXCEPT !.events = @ \cup {"double_free"}]
    IN [l1 EXCEPT !.live = @ \ {node},
                  !.mem[node].val = IF clobber THEN Junk ELSE @]

\* LinkedList::insert_front_raw
insert_front_raw(l, node) ==
    LET l1 == Deref(l, node)
        l2 == [l1 EXCEPT !.mem[node].next = l1.head, !.mem[node].prev = None]
        l3 == IF l2.head = None
              THEN [l2 EXCEPT !.tail = node]
              ELSE [Deref(l2, l2.head) EXCEPT !.mem[l2.head].prev = node]
    IN [l3 EXCEPT !.head = node, !.length = @ + 1]

\* LinkedList::remove: the list afterwards and the value moved out of the node.
remove(l, node, clobber) ==
    LET l1 == DecLength(Deref(l, node))
        p  == l1.mem[node].prev
        l2 == IF p # None
              THEN [Deref(l1, p) EXCEPT !.mem[p].next = l1.mem[node].next]
              ELSE [l1 EXCEPT !.head = l1.mem[node].next]
        n  == l2.mem[node].next
        l3 == IF n # None
              THEN [Deref(l2, n) EXCEPT !.mem[n].prev = l2.mem[node].prev]
              ELSE [l2 EXCEPT !.tail = l2.mem[node].prev]
    IN [list |-> BoxFree(l3, node, clobber), val |-> l3.mem[node].val]

\* LinkedList::reinsert_front
reinsert_front(l, node, clobber) ==
    insert_front_raw(remove(l, node, clobber).list, node)

\* LinkedList::remove_tail: the list afterwards and Option<T>.
remove_tail(l, clobber) ==
    IF l.tail = None THEN [list |-> l, val |-> NoneV]
    ELSE LET node == l.tail
             l1 == DecLength(Deref(l, node))
             l2 == [l1 EXCEPT !.tail = l1.mem[node].prev]
             l3 == IF l2.tail # None
                   THEN [Deref(l2, l2.tail) EXCEPT !.mem[l2.tail].next = None]
                   ELSE [l2 EXCEPT !.head = None]
         IN [list |-> BoxFree(l3, node, clobber), val |-> Some(l3.mem[node].val)]

\* The capacity test with a slip: the cache evicts one entry early.
LengthGeCapacity_OneEarly(l) == l.length < 0 \/ l.length + 1 >= capacity

\* self.list.length >= self.capacity on usize values.
LengthGeCapacity(l) == l.length < 0 \/ l.length >= capacity

\* HashMap::remove(&key)
MapRemove(m, k) == [x \in Keys |-> IF x = k THEN None ELSE m[x]]

\* LRUCache::insert with new_node allocated at address a: the list, the map
\* and the returned Option<T>.
insert(k, v, a, clobber) ==
    LET l0 == BoxNew(List, a, LRUEntry(k, v))
    IN IF map[k] # None
       THEN LET r == remove(l0, map[k], clobber)
            IN [list |-> insert_front_raw(r.list, a),
                map  |-> [map EXCEPT ![k] = a],
                ret  |-> Some(r.val.value)]
       ELSE LET r == IF LengthGeCapacity(l0)
                     THEN remove_tail(l0, clobber)
                     ELSE [list |-> l0, val |-> NoneV]
                m1 == IF r.val # NoneV THEN MapRemove(map, r.val[1].key) ELSE map
            IN [list |-> insert_front_raw(r.list, a),
                map  |-> [m1 EXCEPT ![k] = a],
                ret  |-> IF r.val # NoneV THEN Some(r.val[1].value) ELSE NoneV]

\* get with a slip: a miss refreshes the least-recently-used entry instead of
\* leaving the cache alone.
get_MissRefreshesTail(k, clobber) ==
    IF map[k] = None
    THEN [list |-> IF tail = None THEN List
                   ELSE reinsert_front(List, tail, clobber),
          map |-> map, ret |-> NoneV]
    ELSE LET node == map[k]
             l1 == reinsert_front(Deref(List, node), node, clobber)
         IN [list |-> l1, map |-> map, ret |-> Some(l1.mem[node].val.value)]

\* LRUCache::get: the returned reference points into the node, so what the
\* caller reads through it is what the node holds when get returns.
get(k, clobber) ==
    IF map[k] = None
    THEN [list |-> List, map |-> map, ret |-> NoneV]
    ELSE LET node == map[k]
             l1 == reinsert_front(Deref(List, node), node, clobber)
         IN [list |-> l1, map |-> map, ret |-> Some(l1.mem[node].val.value)]

\* The addresses some pointer of the cache can still lead to: from the map,
\* head and tail, through next and prev.
RECURSIVE Closure(_, _)
Closure(S, m) ==
    LET T == (S \cup {m[a].next : a \in S} \cup {m[a].prev : a \in S}) \ {None}
    IN IF T = S THEN S ELSE Closure(T, m)

Reachable(r) ==
    Closure(({r.list.head, r.list.tail} \cup {r.map[k] : k \in Keys}) \ {None},
            r.list.mem)

\* The heap as the cache can observe it: a chunk no pointer leads to is
\* never read again before Box::new overwrites it, so its bytes are dropped.
Observable(r) ==
    LET reach == Reachable(r)
    IN [a \in Addr |-> IF a \in reach THEN r.list.mem[a] ELSE Node(Junk)]

\* Where Box::new may place a node: any free chunk a dangling pointer still
\* leads to, or a free chunk nothing leads to (these are interchangeable,
\* the lowest stands for all of them).
AllocChoices ==
    LET fresh == (Addr \ live) \ Reachable([list |-> List, map |-> map])
    IN ((Addr \ live) \ fresh) \cup {a \in fresh : \A b \in fresh : a <= b}

\* A call that met a double free may be aborted by the allocator; a build
\* with overflow checks panics on a usize underflow.
MayAbort(ev) == "double_free" \in ev \/ "underflow" \in ev

\* The call returned r.
Commit(r) ==
    /\ mem' = Observable(r)
    /\ live' = r.list.live
    /\ head' = r.list.head
    /\ tail' = r.list.tail
    /\ length' = r.list.length
    /\ events' = r.list.events
    /\ map' = r.map
    /\ UNCHANGED capacity

\* The map with no key in it.
EmptyMap == [k \in Keys |-> None]

\* The call ended the process instead of returning: the process and its heap
\* are gone.
Abort(r) ==
    /\ MayAbort(r.list.events)
    /\ pc' = "aborted"
    /\ events' = r.list.events
    /\ map' = EmptyMap
    /\ mem' = [a \in Addr |-> Node(Junk)]
    /\ live' = {}
    /\ head' = None
    /\ tail' = None
    /\ length' = 0
    /\ UNCHANGED capacity

\* The call insert(k, v).
InsertCall(k, v) ==
    /\ pc = "run"
    /\ calls < MaxCalls
    /\ calls' = calls + 1
    /\ \E a \in AllocChoices, clobber \in BOOLEAN :
          LET r == insert(k, v, a, clobber)
          IN \/ /\ Commit(r)
                /\ pc' = "run"
                /\ op' = [name |-> "insert", key |-> k, value |-> v, ret |-> r.ret]
                /\ rt' = [key |-> k, value |-> v, gets |-> 0]
             \/ /\ Abort(r)
                /\ op' = [name |-> "insert", key |-> k, value |-> v, ret |-> NoneV]
                /\ rt' = NoneV

\* The two variables that follow the calls for the comparison with a
\* reference LRU; only the specification SpecRef moves them.
NoRef == [seq |-> <<>>, ret |-> NoneV]
RefVars == <<ref, recent>>

Insert(k, v) == InsertCall(k, v) /\ UNCHANGED RefVars

\* The call get(k).
GetCall(k) ==
    /\ pc = "run"
    /\ calls < MaxCalls
    /\ calls' = calls + 1
    /\ \E clobber \in BOOLEAN :
          LET r == get(k, clobber)
          IN \/ /\ Commit(r)
                /\ pc' = "run"
                /\ op' = [name |-> "get", key |-> k, value |-> None, ret |-> r.ret]
                /\ rt' = IF rt # NoneV /\ rt.key = k /\ rt.gets < 2
                         THEN [rt EXCEPT !.gets = @ + 1] ELSE NoneV
             \/ /\ Abort(r)
                /\ op' = [name |-> "get", key |-> k, value |-> None, ret |-> NoneV]
                /\ rt' = NoneV

Get(k) == GetCall(k) /\ UNCHANGED RefVars

\* Dropping the cache, one turn of the loop of Drop for LinkedList at a time.
\* The fields are dropped in the order of their declaration: the map goes
\* first (it holds raw pointers and frees no node), then the list.
Drop ==
    /\ pc \in {"run", "dropping"}
    /\ length > -MaxWrap
    /\ UNCHANGED <<calls, ref, recent>>
    /\ rt' = NoneV
    /\ op' = [name |-> "drop", key |-> None, value |-> None, ret |-> NoneV]
    /\ \E clobber \in BOOLEAN :
          LET t == remove_tail(List, clobber)
              r == [list |-> t.list, map |-> EmptyMap]
          IN \/ /\ Commit(r)
                /\ pc' = IF t.val = NoneV THEN "dropped" ELSE "dropping"
             \/ Abort(r)

\* LRUCache::new(capacity)
Init ==
    /\ capacity \in 0..MaxCap
    /\ map = EmptyMap
    /\ mem = [a \in Addr |-> Node(Junk)]
    /\ live = {}
    /\ head = None
    /\ tail = None
    /\ length = 0
    /\ events = {}
    /\ pc = "run"
    /\ calls = 0
    /\ op = [name |-> "new", key |-> None, value |-> None, ret |-> NoneV]
    /\ ref = NoRef
    /\ recent = <<>>
    /\ rt = NoneV

Next ==
    \/ \E k \in Keys, v \in Values : Insert(k, v)
    \/ \E k \in Keys : Get(k)
    \/ Drop

Spec == Init /\ [][Next]_vars

\* ---- the cache as a caller sees it ----------------------------------------

\* The keys of the index map.
MapKeys == {k \in Keys : map[k] # None}

\* The nodes Iter visits: from head along next, length of them at most.
RECURSIVE Walk(_, _)
Walk(node, n) ==
    IF node = None \/ n <= 0 THEN <<>>
    ELSE <<node>> \o Walk(mem[node].next, n - 1)

ListNodes == Walk(head, length)

\* The keys in recency order, head first.
Order == [i \in 1..Len(ListNodes) |-> mem[ListNodes[i]].val.key]

\* The nodes that can be reached from head along next.
RECURSIVE NextClosure(_)
NextClosure(S) ==
    LET T == (S \cup {mem[a].next : a \in S}) \ {None}
    IN IF T = S THEN S ELSE NextClosure(T)

HeadNodes == NextClosure({head} \ {None})

\* The value the cache holds for a key of the map.
ValueOf(k) == mem[map[k]].val.value

\* A sequence without the entries equal to x.
Without(s, x) == SelectSeq(s, LAMBDA y : y # x)

\* The last step was a call of insert or get that returned.
Returned == pc = "run" /\ op.name \in {"insert", "get"}

\* ---- C1 -------------------------------------------------------------------
\* C1: with capacity >= 1, after any sequence of insert and get calls the
\* list's length equals the number of keys in the map, and both are at most
\* the capacity.
C1_LengthIsIndexSize ==
    (capacity >= 1 /\ pc = "run") =>
        /\ length = Cardinality(MapKeys)
        /\ length <= capacity

\* ---- C2 -------------------------------------------------------------------
\* C2: after any sequence of insert and get calls, for every key k of the map
\* the list reachable from head has exactly one node whose entry key is k,
\* map[k] is that node, and every node of the list has its key in the map.
C2_IndexMatchesList ==
    (capacity >= 1 /\ pc = "run") =>
        /\ \A k \in MapKeys : {n \in HeadNodes : mem[n].val.key = k} = {map[k]}
        /\ \A n \in HeadNodes : mem[n].val.key \in MapKeys

\* ---- C3 -------------------------------------------------------------------
\* C3: every handle in the map references a live node, and no step of insert
\* or get touches a node after it was destroyed.
C3_NoDanglingHandle ==
    /\ (capacity >= 1 /\ pc = "run") => \A k \in MapKeys : map[k] \in live
    /\ (capacity >= 1 /\ op.name \in {"insert", "get"}) => "use_after_free" \notin events

\* ---- C4 -------------------------------------------------------------------
\* C4: insert(k, v) of an absent key when length = capacity removes exactly
\* the key of the list tail; afterwards k is at the head and the other keys
\* keep their values and their order.
C4_EvictionLaw ==
    [][\A k \in Keys :
        (/\ op'.name = "insert" /\ op'.key = k
         /\ calls' = calls + 1 /\ pc' = "run"
         /\ capacity >= 1
         /\ map[k] = None
         /\ length = capacity)
        => (/\ tail # None
            /\ MapKeys' = (MapKeys \ {mem[tail].val.key}) \cup {k}
            /\ Order' = <<k>> \o SubSeq(Order, 1, Len(Order) - 1)
            /\ ValueOf(k)' = op'.value
            /\ \A j \in MapKeys \ {mem[tail].val.key} :
                   ValueOf(j)' = ValueOf(j))]_vars

\* ---- C5 -------------------------------------------------------------------
\* C5: after get(k) or insert(k, v) on a present key k, k is at the head of
\* the list and the order of the other keys is unchanged.
C5_RecencyLaw ==
    [][\A k \in Keys :
        (/\ op'.name \in {"insert", "get"} /\ op'.key = k
         /\ calls' = calls + 1 /\ pc' = "run"
         /\ capacity >= 1
         /\ map[k] # None)
        => Order' = <<k>> \o Without(Order, k)]_vars

\* ---- C6 -------------------------------------------------------------------
\* C6: insert(key, value) returns the prior value of key when key is present,
\* the value of the evicted least-recently-used entry when key is absent and
\* the cache is at capacity, and None when key is absent below capacity.
C6_InsertReturnsDisplaced ==
    [][\A k \in Keys :
        (/\ op'.name = "insert" /\ op'.key = k
         /\ calls' = calls + 1 /\ pc' = "run"
         /\ capacity >= 1)
        => op'.ret = IF map[k] # None THEN Some(ValueOf(k))
                     ELSE IF length = capacity /\ tail # None
                          THEN Some(mem[tail].val.value)
                          ELSE NoneV]_vars

\* ---- C7 -------------------------------------------------------------------
\* C7: with capacity >= 1, insert(k, v) immediately followed by get(k)
\* returns v, and a second get(k) right after returns v again.
C7_RoundTrip ==
    (capacity >= 1 /\ Returned /\ op.name = "get" /\ rt # NoneV) =>
        op.ret = Some(rt.value)

\* ---- C8 -------------------------------------------------------------------
\* C8: dropping the list frees every node that is still allocated exactly
\* once: no node is freed twice and none is left allocated.
C8_DropFreesOnce ==
    /\ (capacity >= 1 /\ op.name = "drop") => "double_free" \notin events
    /\ (capacity >= 1 /\ pc = "dropped") => live = {}

\* ---- C9 -------------------------------------------------------------------
\* C9: a capacity of zero is rejected by new; failing that, the cache never
\* holds an entry and get never finds a value.
C9_ZeroCapacityHoldsNothing ==
    capacity = 0 =>
        /\ MapKeys = {}
        /\ length = 0
        /\ op.name = "get" => op.ret = NoneV

\* ---- C10 ------------------------------------------------------------------
\* C10: get(k) on an absent key returns None and changes nothing: the map,
\* the list, its length and every stored value are as before.
C10_MissChangesNothing ==
    [][\A k \in Keys :
        (op'.name = "get" /\ op'.key = k /\ calls' = calls + 1 /\ map[k] = None)
        => (/\ op'.ret = NoneV
            /\ pc' = "run"
            /\ UNCHANGED <<capacity, map, mem, live, head, tail, length>>)]_vars

\* A get missed on a cache that holds other keys.
C10_Witness ==
    /\ pc = "run" /\ op.name = "get" /\ op.ret = NoneV
    /\ map[op.key] = None
    /\ MapKeys # {}

\* ---- C11 ------------------------------------------------------------------
\* C11: insert(k, v) on a key that is already present never evicts: the
\* length and the set of keys are unchanged, every other key keeps its value
\* and its place in the order, k holds v at the head, and the old value of k
\* is returned.
C11_UpdateNeverEvicts ==
    [][\A k \in Keys :
        (/\ op'.name = "insert" /\ op'.key = k
         /\ calls' = calls + 1 /\ pc' = "run"
         /\ capacity >= 1
         /\ map[k] # None)
        => (/\ length' = length
            /\ MapKeys' = MapKeys
            /\ Order' = <<k>> \o Without(Order, k)
            /\ ValueOf(k)' = op'.value
            /\ op'.ret = Some(ValueOf(k))
            /\ \A j \in MapKeys \ {k} : ValueOf(j)' = ValueOf(j))]_vars

C16_DropStopsAfterLength ==
    (capacity >= 1 /\ op.name = "drop") =>
        /\ "underflow" \notin events
        /\ pc = "dropping" => (length >= 0 /\ (length = 0 <=> tail = None))
        /\ pc = "dropped" => (length = 0 /\ head = None /\ tail = None)

\* ---- C17 ------------------------------------------------------------------
\* C17: a get hit changes only the order: the keys, the length and the value
\* stored for every key are as before, the entry of k is not destroyed, and
\* the value returned is the value stored for k.
C17_HitChangesOnlyOrder ==
    [][\A k \in Keys :
        (/\ op'.name = "get" /\ op'.key = k
         /\ calls' = calls + 1 /\ pc' = "run"
         /\ capacity >= 1
         /\ map[k] # None /\ map[k] \in live)
        => (/\ MapKeys' = MapKeys
            /\ length' = length
            /\ map'[k] \in live'
            /\ op'.ret = Some(ValueOf(k))
            /\ \A j \in MapKeys : ValueOf(j)' = ValueOf(j))]_vars

\* ---- the LinkedList on its own ---------------------------------------------
\* Code of the module that owns a LinkedList<LRUEntry>. It makes nodes itself
\* and links them with insert_front_raw, or lets insert_front make them, and
\* it reaches every node through head, tail, next and prev. A handle is live
\* while its node is allocated: only live handles are passed to remove and
\* reinsert_front.

\* The values the caller puts into the list.
ListVals == {LRUEntry(k, MaxVal) : k \in Keys}

\* What the list and the caller's handles lead to.
ListReachable(l) == Closure(({l.head, l.tail} \cup l.live) \ {None}, l.mem)

\* The heap as the list and its caller can observe it.
ListObservable(l) ==
    LET reach == ListReachable(l)
    IN [a \in Addr |-> IF a \in reach THEN l.mem[a] ELSE Node(Junk)]

\* Where Box::new may place a node of the list (as AllocChoices).
ListAllocChoices ==
    LET fresh == (Addr \ live) \ ListReachable(List)
    IN ((Addr \ live) \ fresh) \cup {a \in fresh : \A b \in fresh : a <= b}

\* LinkedList::insert_front
insert_front(l, a, val) == insert_front_raw(BoxNew(l, a, val), a)

\* Iter::next repeated until it returns None: the nodes visited. A length
\* below zero is a wrapped usize: the walk is then bounded by the links only,
\* and is cut here after more nodes than the heap has.
IterNodes == Walk(head, IF length < 0 THEN MaxAddr + 1 ELSE length)

\* What iter() yields, head first.
IterVals == [i \in 1..Len(IterNodes) |-> mem[IterNodes[i]].val]

\* The list operation returned l.
ListCommit(l) ==
    /\ mem' = ListObservable(l)
    /\ live' = l.live
    /\ head' = l.head
    /\ tail' = l.tail
    /\ length' = l.length
    /\ events' = l.events
    /\ pc' = "run"
    /\ UNCHANGED <<capacity, map, ref, recent, rt>>

\* The list operation ended the process.
ListAbort(l) ==
    /\ Abort([list |-> l, map |-> EmptyMap])
    /\ UNCHANGED <<ref, recent, rt>>

ListStep ==
    /\ pc = "run"
    /\ calls < MaxListOps
    /\ calls' = calls + 1

ListInsertFront(val) ==
    /\ ListStep
    /\ \E a \in ListAllocChoices :
          /\ ListCommit(insert_front(List, a, val))
          /\ op' = [name |-> "insert_front", node |-> None,
                    val |-> Some(val), ret |-> NoneV]

\* node = Box::new(Node::new(val)) made by the caller, as LRUCache::insert
\* makes it, and linked with insert_front_raw(node).
ListInsertFrontRaw(val) ==
    /\ ListStep
    /\ \E a \in ListAllocChoices :
          /\ ListCommit(insert_front_raw(BoxNew(List, a, val), a))
          /\ op' = [name |-> "insert_front_raw", node |-> a,
                    val |-> Some(val), ret |-> NoneV]

ListRemove(node) ==
    /\ ListStep
    /\ node \in live
    /\ \E clobber \in BOOLEAN :
          LET r == remove(List, node, clobber)
          IN \/ /\ ListCommit(r.list)
                /\ op' = [name |-> "remove", node |-> node,
                          val |-> NoneV, ret |-> Some(r.val)]
             \/ /\ ListAbort(r.list)
                /\ op' = [name |-> "remove", node |-> node,
                          val |-> NoneV, ret |-> NoneV]

ListReinsertFront(node) ==
    /\ ListStep
    /\ node \in live
    /\ \E clobber \in BOOLEAN :
          LET l == reinsert_front(List, node, clobber)
          IN /\ op' = [name |-> "reinsert_front", node |-> node,
                       val |-> NoneV, ret |-> NoneV]
             /\ \/ ListCommit(l)
                \/ ListAbort(l)

ListRemoveTail ==
    /\ ListStep
    /\ \E clobber \in BOOLEAN :
          LET r == remove_tail(List, clobber)
          IN \/ /\ ListCommit(r.list)
                /\ op' = [name |-> "remove_tail", node |-> None,
                          val |-> NoneV, ret |-> r.val]
             \/ /\ ListAbort(r.list)
                /\ op' = [name |-> "remove_tail", node |-> None,
                          val |-> NoneV, ret |-> NoneV]

\* list.iter() run to its end: the list is only read.
ListIter ==
    /\ ListStep
    /\ op' = [name |-> "iter", node |-> None, val |-> NoneV, ret |-> IterVals]
    /\ UNCHANGED <<capacity, map, mem, live, head, tail, length, events, pc,
                   ref, recent, rt>>

\* LinkedList::new()
InitList ==
    /\ capacity = 0
    /\ map = EmptyMap
    /\ mem = [a \in Addr |-> Node(Junk)]
    /\ live = {}
    /\ head = None
    /\ tail = None
    /\ length = 0
    /\ events = {}
    /\ pc = "run"
    /\ calls = 0
    /\ op = [name |-> "new", node |-> None, val |-> NoneV, ret |-> NoneV]
    /\ ref = NoRef
    /\ recent = <<>>
    /\ rt = NoneV

NextList ==
    \/ \E val \in ListVals : ListInsertFront(val)
    \/ \E val \in ListVals : ListInsertFrontRaw(val)
    \/ \E node \in Addr : ListRemove(node)
    \/ \E node \in Addr : ListReinsertFront(node)
    \/ ListRemoveTail
    \/ ListIter

SpecList == InitList /\ [][NextList]_vars

\* The nodes that can be reached from tail along prev.
RECURSIVE PrevClosure(_)
PrevClosure(S) ==
    LET T == (S \cup {mem[a].prev : a \in S}) \ {None}
    IN IF T = S THEN S ELSE PrevClosure(T)

\* The nodes met from tail along prev, n of them at most.
RECURSIVE WalkBack(_, _)
WalkBack(node, n) ==
    IF node = None \/ n <= 0 THEN <<>>
    ELSE <<node>> \o WalkBack(mem[node].prev, n - 1)

\* ---- C12 ------------------------------------------------------------------
\* C12: after every LinkedList operation applied to live handles, length is
\* 0 iff head and tail are both None; a.next = b iff b.prev = a; head has no
\* prev and tail no next; and following next from head reaches tail in
\* exactly length steps, as following prev from tail reaches head (no cycle).
C12_ListWellFormed ==
    pc = "run" =>
        LET nodes == HeadNodes \cup PrevClosure({tail} \ {None})
            fwd == Walk(head, length + 1)
            bwd == WalkBack(tail, length + 1)
        IN /\ (length = 0) <=> (head = None /\ tail = None)
           /\ (head = None) <=> (tail = None)
           /\ \A a, b \in nodes : (mem[a].next = b) <=> (mem[b].prev = a)
           /\ head # None => mem[head].prev = None
           /\ tail # None => mem[tail].next = None
           /\ Len(fwd) = length /\ Len(bwd) = length
           /\ length > 0 => (fwd[length] = tail /\ bwd[length] = head)
           /\ Cardinality({fwd[i] : i \in 1..Len(fwd)}) = Len(fwd)

\* ---- C14 ------------------------------------------------------------------
\* C14: iterating the list visits its entries from head to tail and yields
\* exactly length of them; an iter call reads the list from its head and
\* changes nothing; after insert_front(x) the list yields x and then what it
\* yielded before (so x1..xn put into an empty list come out as xn..x1).
C14_IterHeadToTail ==
    [][/\ pc' = "run" =>
            /\ Len(IterNodes') = length'
            /\ \A i \in 1..Len(IterNodes') : IterNodes'[i] \in live'
            /\ length' > 0 => (IterNodes'[1] = head' /\ IterNodes'[length'] = tail')
       /\ op'.name = "iter" =>
            (op'.ret = IterVals /\ UNCHANGED <<mem, live, head, tail, length>>)
       /\ \A x \in ListVals :
            (op'.name = "insert_front" /\ op'.val = Some(x) /\ calls' = calls + 1)
            => IterVals' = <<x>> \o IterVals]_vars

\* ---- C18 ------------------------------------------------------------------
\* C18: remove_tail on an empty list returns None and leaves length, head
\* and tail as they are; on a non-empty list it returns the entry of the
\* tail, takes one from length, makes the predecessor of the former tail the
\* tail with no next, and sets head to None when the list becomes empty.
C18_RemoveTail ==
    [][(op'.name = "remove_tail" /\ calls' = calls + 1) =>
        IF length = 0
        THEN /\ pc' = "run" /\ op'.ret = NoneV
             /\ UNCHANGED <<length, head, tail>>
        ELSE /\ pc' = "run" /\ "underflow" \notin events'
             /\ tail # None
             /\ op'.ret = Some(mem[tail].val)
             /\ length' = length - 1
             /\ tail' = mem[tail].prev
             /\ tail' # None => mem'[tail'].next = None
             /\ length' = 0 => head' = None]_vars

\* ---- build_max_heap --------------------------------------------------------
\* heap.rs, on its own: op holds the Vec passed in and what the call
\* returned; the cache's variables stay as they start.

\* The elements and the Vecs passed in.
Elems == 1..MaxElem
RECURSIVE VecsOfLen(_)
VecsOfLen(n) ==
    IF n = 0 THEN {<<>>}
    ELSE {Append(d, x) : d \in VecsOfLen(n - 1), x \in Elems}
Vecs == UNION {VecsOfLen(n) : n \in 0..MaxLen}

\* The Vec being sorted and the panics met so far ("underflow",
\* "out_of_bounds") or a loop found not to end ("diverges").
HeapState(data) == [data |-> data, events |-> {}]
Panicked(h) == h.events # {}
Fault(h, ev) == [h EXCEPT !.events = @ \cup {ev}]

\* usize values: a number below zero stands for one that wrapped around
\* (x + 2^64), which is above every length. a < b on usize:
ULt(a, b) ==
    IF (a < 0) = (b < 0) THEN a < b ELSE b < 0

\* a - b on usize is a - b in this encoding; it underflows when a < b, and
\* a build with overflow checks panics there.
CheckedSub(h, a, b, checks) ==
    IF checks /\ ULt(a, b) THEN Fault(h, "underflow") ELSE h

\* The bounds check of data[i], index from 0.
InBounds(data, i) == i >= 0 /\ i < Len(data)

\* data.swap(i, j), indices from 0.
swap(h, i, j) ==
    IF Panicked(h) THEN h
    ELSE IF ~(InBounds(h.data, i) /\ InBounds(h.data, j))
    THEN Fault(h, "out_of_bounds")
    ELSE [h EXCEPT !.data = [@ EXCEPT ![i + 1] = h.data[j + 1],
                                       ![j + 1] = h.data[i + 1]]]

\* sift_down(data, start, end): the while loop from i = start, given fuel
\* turns; a loop that needs more turns than the Vec has elements never ends.
RECURSIVE sift_down(_, _, _, _)
sift_down(h, i, end, fuel) ==
    IF Panicked(h) \/ ~ULt(i, end) THEN h
    ELSE IF fuel = 0 THEN Fault(h, "diverges")
    ELSE LET c1 == 2 * i + 1
             c2 == 2 * i + 2
             t1 == ULt(c1, end)
             oob1 == t1 /\ ~(InBounds(h.data, i) /\ InBounds(h.data, c1))
             s1 == IF t1 /\ ~oob1 /\ h.data[i + 1] > h.data[c1 + 1]
                   THEN c1 ELSE i
             t2 == ULt(c2, end)
             oob2 == t2 /\ ~(InBounds(h.data, s1) /\ InBounds(h.data, c2))
             s2 == IF t2 /\ ~oob2 /\ h.data[s1 + 1] > h.data[c2 + 1]
                   THEN c2 ELSE s1
         IN IF oob1 \/ oob2 THEN Fault(h, "out_of_bounds")
            ELSE IF s2 = i THEN h
            ELSE sift_down(swap(h, s2, i), s2, end, fuel - 1)

\* The turns a sift_down over this Vec can take.
Fuel(h) == Len(h.data) + 1

\* for i in (0..l / 2).rev() { sift_down(&mut data, i, l - 1) }, with n
\* turns of the loop left.
RECURSIVE HeapifyLoop(_, _, _, _)
HeapifyLoop(h, n, l, checks) ==
    IF n = 0 \/ Panicked(h) THEN h
    ELSE LET h1 == CheckedSub(h, l, 1, checks)
         IN HeapifyLoop(sift_down(h1, n - 1, l - 1, Fuel(h1)), n - 1, l, checks)

\* for i in 0..bound { data.swap(0, l - 1 - i); sift_down(&mut data, 0, l - 1 - i) }
\* from turn i on, bound being the value of l - 1.
RECURSIVE SortLoop(_, _, _, _, _)
SortLoop(h, i, bound, l, checks) ==
    IF Panicked(h) \/ ~ULt(i, bound) THEN h
    ELSE LET j  == l - 1 - i
             h1 == CheckedSub(CheckedSub(h, l, 1, checks), l - 1, i, checks)
             h2 == swap(h1, 0, j)
             h3 == CheckedSub(CheckedSub(h2, l, 1, checks), l - 1, i, checks)
         IN SortLoop(sift_down(h3, 0, j, Fuel(h3)), i + 1, bound, l, checks)

\* build_max_heap(data), in a build with overflow checks or without.
build_max_heap(data, checks) ==
    LET l  == Len(data)
        h1 == HeapifyLoop(HeapState(data), l \div 2, l, checks)
        h2 == IF Panicked(h1) THEN h1 ELSE CheckedSub(h1, l, 1, checks)
    IN SortLoop(h2, 0, l - 1, l, checks)

\* The call of build_max_heap(op.data): it returns the sorted Vec, or it
\* panics.
HeapBuild ==
    /\ pc = "run"
    /\ op.name = "input"
    /\ \E checks \in BOOLEAN :
          LET h == build_max_heap(op.data, checks)
          IN /\ events' = h.events
             /\ pc' = IF Panicked(h) THEN "aborted" ELSE "run"
             /\ op' = [name |-> "build_max_heap", data |-> op.data,
                       ret |-> IF Panicked(h) THEN NoneV ELSE Some(h.data)]
    /\ UNCHANGED <<capacity, map, mem, live, head, tail, length, calls,
                   ref, recent, rt>>

\* A caller about to pass a Vec to build_max_heap.
InitHeap ==
    /\ capacity = 0
    /\ map = EmptyMap
    /\ mem = [a \in Addr |-> Node(Junk)]
    /\ live = {}
    /\ head = None
    /\ tail = None
    /\ length = 0
    /\ events = {}
    /\ pc = "run"
    /\ calls = 0
    /\ \E data \in Vecs : op = [name |-> "input", data |-> data, ret |-> NoneV]
    /\ ref = NoRef
    /\ recent = <<>>
    /\ rt = NoneV

NextHeap == HeapBuild

SpecHeap == InitHeap /\ [][NextHeap]_vars

\* How often x occurs in the sequence s.
Count(s, x) == Cardinality({i \in 1..Len(s) : s[i] = x})

\* ---- C15 ------------------------------------------------------------------
\* C15: for every non-empty input, build_max_heap returns the same elements
\* in non-increasing order.
C15_SortedDescending ==
    (op.name = "build_max_heap" /\ Len(op.data) >= 1) =>
        /\ pc = "run"
        /\ op.ret # NoneV
        /\ LET out == op.ret[1]
           IN /\ Len(out) = Len(op.data)
              /\ \A x \in Elems : Count(out, x) = Count(op.data, x)
              /\ \A i \in 1..Len(out) - 1 : out[i] >= out[i + 1]

\* ---- the cache beside a reference LRU --------------------------------------
\* The reference keeps a duplicate-free sequence of (key, value) pairs, most
\* recent first; it moves the accessed key to the front and drops the last
\* pair when a new key arrives at full capacity.

\* The keys of a sequence of pairs, in order.
KeysOf(seq) == [i \in 1..Len(seq) |-> seq[i].key]

\* The pairs of seq whose key is not k.
Others(seq, k) == SelectSeq(seq, LAMBDA e : e.key # k)

\* The pair of seq whose key is k.
PairOf(seq, k) == CHOOSE e \in {seq[i] : i \in 1..Len(seq)} : e.key = k

HasKey(seq, k) == \E i \in 1..Len(seq) : seq[i].key = k

\* insert(k, v) of the reference: the displaced value is returned.
RefInsert(seq, k, v) ==
    IF HasKey(seq, k)
    THEN [seq |-> <<LRUEntry(k, v)>> \o Others(seq, k),
          ret |-> Some(PairOf(seq, k).value)]
    ELSE IF Len(seq) >= capacity /\ Len(seq) > 0
    THEN [seq |-> <<LRUEntry(k, v)>> \o SubSeq(seq, 1, Len(seq) - 1),
          ret |-> Some(seq[Len(seq)].value)]
    ELSE [seq |-> <<LRUEntry(k, v)>> \o seq, ret |-> NoneV]

\* get(k) of the reference.
RefGet(seq, k) ==
    IF HasKey(seq, k)
    THEN [seq |-> <<PairOf(seq, k)>> \o Others(seq, k),
          ret |-> Some(PairOf(seq, k).value)]
    ELSE [seq |-> seq, ret |-> NoneV]

\* k has just been accessed.
Touch(keys, k) == <<k>> \o Without(keys, k)

\* insert(k, v) on the cache and on the reference.
InsertBoth(k, v) ==
    /\ InsertCall(k, v)
    /\ ref' = RefInsert(ref.seq, k, v)
    /\ recent' = Touch(recent, k)

\* get(k) on the cache and on the reference; the key counts as accessed
\* when the cache reports a hit.
GetBoth(k) ==
    /\ GetCall(k)
    /\ ref' = RefGet(ref.seq, k)
    /\ recent' = IF op'.ret # NoneV THEN Touch(recent, k) ELSE recent

\* LRUCache::new(capacity) with capacity >= 1, and an empty reference.
InitRef == Init /\ capacity >= 1

NextRef ==
    \/ \E k \in Keys, v \in Values : InsertBoth(k, v)
    \/ \E k \in Keys : GetBoth(k)

SpecRef == InitRef /\ [][NextRef]_vars

\* How many keys were accessed after the last access of k.
AccessedSince(keys, k) ==
    Cardinality({i \in 1..Len(keys) : \E j \in 1..Len(keys) : j > i /\ keys[j] = k})

\* ---- C19 ------------------------------------------------------------------
\* C19: with capacity >= 1, after every sequence of insert and get calls the
\* call returned to the caller what the reference LRU returned, and the keys
\* of the list from head to tail are the keys of the reference in its order.
C19_MatchesReference ==
    op.name \in {"insert", "get"} =>
        /\ pc = "run"
        /\ op.ret = ref.ret
        /\ Order = KeysOf(ref.seq)

\* ---- C20 ------------------------------------------------------------------
\* C20: when a key k leaves a cache of capacity c >= 1 by eviction, at least
\* c distinct keys other than k were accessed (by a get hit or an insert, the
\* insert that evicts included) since the last get hit or insert of k.
C20_RecentKeySurvives ==
    [][\A k \in Keys :
        (/\ op'.name = "insert" /\ calls' = calls + 1 /\ pc' = "run"
         /\ map[k] # None /\ map'[k] = None)
        => AccessedSince(recent', k) >= capacity]_vars

\* ---- C21 ------------------------------------------------------------------
\* C21: build_max_heap returns for every Vec, the empty one and those of one
\* element included: l - 1 never goes below zero, no index or swap is out of
\* bounds, and every sift_down ends.
C21_Total ==
    op.name = "build_max_heap" =>
        /\ pc = "run"
        /\ events = {}
        /\ op.ret # NoneV

====
